---- MODULE Spec2Model ----
(***************************************************************************)
(* A model of multimode.MultimodeGraph (src/multimode/multimode.py) and of *)
(* the frenemy driver's use of it (src/multimode/frenemy.py).              *)
(*                                                                         *)
(* MultimodeGraph extends networkx.MultiDiGraph (networkx 1.x: the code    *)
(* uses nodes_iter/edges_iter and the attr_dict argument).  The base class *)
(* is modelled where the source calls it:                                  *)
(*   - self.node[n] is a dict OBJECT: add_node(n, attr_dict=d) updates d   *)
(*     in place and, for a new node, stores d itself (no copy);            *)
(*   - self.adj[u][v] is a key dict {key: data dict}; add_edge(key=None)   *)
(*     picks the integer len(keydict), counted up until unused; the data   *)
(*     dict is always a fresh dict, but attr_dict is updated in place;     *)
(*   - has_edge(u, v) without key asks for any edge u -> v.                *)
(* Python's None is the string "None"; integer edge keys are the strings   *)
(* "0", "1", ... so that all keys of the model have one type.              *)
(***************************************************************************)
EXTENDS Integers, Sequences, FiniteSets, TLC

\* ------------------------------------------------------------ bounds
MaxNode == 3
MaxAuto == 3
MaxOps == 2
MaxWeight == 3
MaxEdges == 3

\* ------------------------------------------------------------ values
Nodes == 1..MaxNode
None == "None"
Types == {"person", "place"}
Kinds == {"friend", "enemy"}
NodesetIds == {"ns1"}
Overflow == "overflow"
AutoKeyNames == <<"0", "1", "2", "3", "4", "5", "6", "7">>
AutoKeys == {AutoKeyNames[i] : i \in 1..MaxAuto}
\* Iteration order of a key dict (fixed: integers first, then the labels).
KeyOrder == SubSeq(AutoKeyNames, 1, MaxAuto) \o <<"enemy", "friend", "weight", Overflow>>
KeyUniverse == {KeyOrder[i] : i \in 1..Len(KeyOrder)}

GraphNames == {"A", "B", "R", "T"}
NoRef == 0
Refs == 1..(4 * MaxNode)
Free == [free |-> TRUE]
NoPtr == [g |-> "-", e |-> <<0, 0, "-">>]
NoAttr == [x \in {} |-> 0]
IntData(n) == [int |-> n]
IsDict(d) == "int" \notin DOMAIN d

VARIABLES G, heap, call, last, incs, registered, budget
vars == <<G, heap, call, last, incs, registered, budget>>

\* ------------------------------------------------------------ the graph object
EmptyGraph == [node |-> [n \in Nodes |-> NoRef], adj |-> [e \in {} |-> NoAttr], nodesets |-> [t \in {} |-> {}], edgekeys |-> {}]

World == [G |-> G, heap |-> heap, raised |-> FALSE]

UsedRefs(w) == {w.G[g].node[n] : g \in GraphNames, n \in Nodes} \ {NoRef}
NewRef(w) == CHOOSE r \in Refs : r \notin UsedRefs(w) /\ \A q \in 1..(r - 1) : q \in UsedRefs(w)
GC(w) == LET used == UsedRefs(w) IN [w EXCEPT !.heap = [r \in Refs |-> IF r \in used THEN w.heap[r] ELSE Free]]

HasNode(w, g, n) == w.G[g].node[n] # NoRef
NodeData(w, g, n) == w.heap[w.G[g].node[n]]
NodeType(w, g, n) == NodeData(w, g, n).type
nodes_iter(w, g) == SelectSeq([i \in 1..MaxNode |-> i], LAMBDA n : HasNode(w, g, n))

\* self.nodesets[type].add(n) on a defaultdict(set)
NodesetsAdd(ns, type, n) == IF type \in DOMAIN ns THEN [ns EXCEPT ![type] = @ \cup {n}] ELSE (type :> {n}) @@ ns
\* self.nodesets[type] on a defaultdict(set): a missing key is inserted
NodesetsTouch(ns, type) == IF type \in DOMAIN ns THEN ns ELSE (type :> {}) @@ ns

\* networkx DiGraph.add_node(n, attr_dict, **attr)
parent_add_node(w, g, n, attr_dict, kw) ==
  LET h1 == IF attr_dict = NoRef THEN w.heap ELSE [w.heap EXCEPT ![attr_dict] = kw @@ @]
      content == IF attr_dict = NoRef THEN kw ELSE h1[attr_dict]
  IN  IF ~HasNode(w, g, n)
      THEN LET r == IF attr_dict = NoRef THEN NewRef(w) ELSE attr_dict
           IN  [w EXCEPT !.heap = [h1 EXCEPT ![r] = content], !.G[g].node[n] = r]
      ELSE LET r == w.G[g].node[n]
           IN  [w EXCEPT !.heap = [h1 EXCEPT ![r] = content @@ @]]

add_node(w, g, n, type, nodeset_id, attr_dict) ==
  LET w1 == parent_add_node(w, g, n, attr_dict, [type |-> type, nodeset_id |-> nodeset_id])
  IN  [w1 EXCEPT !.G[g].nodesets = NodesetsAdd(@, type, n)]

\* networkx DiGraph.add_nodes_from(nodes, **attr) for a container of plain nodes:
\* a new node gets attr.copy(), an existing node's dict is updated
RECURSIVE parent_add_nodes_from(_, _, _, _)
parent_add_nodes_from(w, g, nodes, type) ==
  IF nodes = << >> THEN w
  ELSE LET n == Head(nodes)
           w1 == IF ~HasNode(w, g, n)
                 THEN [w EXCEPT !.heap[NewRef(w)] = [type |-> type], !.G[g].node[n] = NewRef(w)]
                 ELSE [w EXCEPT !.heap[w.G[g].node[n]] = [type |-> type] @@ @]
       IN  parent_add_nodes_from(w1, g, Tail(nodes), type)

RECURSIVE nodesets_add_all(_, _, _)
nodesets_add_all(ns, nodes, type) ==
  IF nodes = << >> THEN ns ELSE nodesets_add_all(NodesetsAdd(ns, type, Head(nodes)), Tail(nodes), type)

add_nodes_from(w, g, nodes, type) ==
  LET w1 == parent_add_nodes_from(w, g, nodes, type)
  IN  [w1 EXCEPT !.G[g].nodesets = nodesets_add_all(@, nodes, type)]

node_types(w, g) == DOMAIN w.G[g].nodesets

\* nodeset returns self.nodesets[type]; the lookup itself changes the defaultdict
nodeset(w, g, type) == [w EXCEPT !.G[g].nodesets = NodesetsTouch(@, type)]
nodeset_result(w, g, type) == IF type \in DOMAIN w.G[g].nodesets THEN w.G[g].nodesets[type] ELSE {}

\* ------------------------------------------------------------ edges
KeysOf(w, g, u, v) == {e[3] : e \in {x \in DOMAIN w.G[g].adj : x[1] = u /\ x[2] = v}}
Edges(w, g) == DOMAIN w.G[g].adj
\* v in self.adj[u]: some edge u -> v, of any key
Adjacent(w, g, u, v) == \E e \in Edges(w, g) : e[1] = u /\ e[2] = v

\* key = len(keydict); while key in keydict: key += 1   (0 for the first edge)
AutoKey(keys) ==
  LET c == {i \in Cardinality(keys)..(MaxAuto - 1) : AutoKeyNames[i + 1] \notin keys}
  IN  IF c = {} THEN Overflow ELSE AutoKeyNames[(CHOOSE i \in c : \A j \in c : i <= j) + 1]

\* networkx MultiDiGraph.add_edge(u, v, key, attr_dict, **attr)
parent_add_edge(w, g, u, v, key, kw, attr_dict) ==
  IF attr_dict # NoPtr /\ ~IsDict(w.G[attr_dict.g].adj[attr_dict.e])
  THEN [w EXCEPT !.raised = TRUE]
  ELSE LET w1 == IF attr_dict = NoPtr THEN w
                 ELSE [w EXCEPT !.G[attr_dict.g].adj[attr_dict.e] = kw @@ @]
           attrs == IF attr_dict = NoPtr THEN kw ELSE w1.G[attr_dict.g].adj[attr_dict.e]
           k == IF key = None THEN AutoKey(KeysOf(w1, g, u, v)) ELSE key
           e == <<u, v, k>>
           datadict == IF e \in Edges(w1, g) THEN attrs @@ w1.G[g].adj[e] ELSE attrs
       IN  [w1 EXCEPT !.G[g].adj = (e :> datadict) @@ @]

\* mutant: the kind is not handed on to the base class
add_edge_nokey(w, g, u, v, utype, vtype, key, attr_dict, attr) ==
  LET w1 == IF ~HasNode(w, g, u) THEN add_node(w, g, u, utype, None, NoRef) ELSE w
      w2 == IF ~HasNode(w1, g, v) THEN add_node(w1, g, v, vtype, None, NoRef) ELSE w1
      w3 == IF key # None THEN [w2 EXCEPT !.G[g].edgekeys = @ \cup {<<utype, vtype, key>>}] ELSE w2
  IN  parent_add_edge(w3, g, u, v, None, attr @@ [utype |-> utype, vtype |-> vtype], attr_dict)

add_edge(w, g, u, v, utype, vtype, key, attr_dict, attr) ==
  LET w1 == IF ~HasNode(w, g, u) THEN add_node(w, g, u, utype, None, NoRef) ELSE w
      w2 == IF ~HasNode(w1, g, v) THEN add_node(w1, g, v, vtype, None, NoRef) ELSE w1
      w3 == IF key # None THEN [w2 EXCEPT !.G[g].edgekeys = @ \cup {<<utype, vtype, key>>}] ELSE w2
  IN  parent_add_edge(w3, g, u, v, key, attr @@ [utype |-> utype, vtype |-> vtype], attr_dict)

\* networkx MultiDiGraph.has_edge(u, v, key)
has_edge(w, g, u, v, key) == IF key = None THEN Adjacent(w, g, u, v) ELSE <<u, v, key>> \in Edges(w, g)

\* networkx MultiDiGraph.remove_edge(u, v, key) with a key; an absent edge raises NetworkXError
remove_edge(w, g, u, v, key) ==
  IF <<u, v, key>> \notin Edges(w, g) THEN [w EXCEPT !.raised = TRUE]
  ELSE [w EXCEPT !.G[g].adj = [e \in DOMAIN @ \ {<<u, v, key>>} |-> @[e]]]

\* self[u][v] is the key dict of u -> v, so 'weight' is looked up among the edge
\* KEYS and self[u][v]['weight'] = 1 stores the integer 1 under the key 'weight'.
\* Nothing in the try block raises KeyError, so the except branch is never taken;
\* dict += 1 (an edge whose kind is 'weight') raises TypeError, which is not caught.
add_or_inc_edge(w, g, u, v, utype, vtype, key) ==
  IF has_edge(w, g, u, v, None)
  THEN IF <<u, v, "weight">> \in Edges(w, g)
       THEN IF IsDict(w.G[g].adj[<<u, v, "weight">>])
            THEN [w EXCEPT !.raised = TRUE]
            ELSE [w EXCEPT !.G[g].adj[<<u, v, "weight">>] = IntData(@.int + 1)]
       ELSE [w EXCEPT !.G[g].adj = (<<u, v, "weight">> :> IntData(1)) @@ @]
  ELSE add_edge(w, g, u, v, utype, vtype, key, NoPtr, [weight |-> 1])

RECURSIVE add_edges_from(_, _, _, _, _, _)
add_edges_from(w, g, ebunch, utype, vtype, key) ==
  IF ebunch = << >> \/ w.raised THEN w
  ELSE add_edges_from(add_edge(w, g, Head(ebunch)[1], Head(ebunch)[2], utype, vtype, key, NoPtr, NoAttr), g, Tail(ebunch), utype, vtype, key)

RECURSIVE add_weighted_edges_from(_, _, _, _, _, _)
add_weighted_edges_from(w, g, ebunch, utype, vtype, key) ==
  IF ebunch = << >> \/ w.raised THEN w
  ELSE add_weighted_edges_from(add_edge(w, g, Head(ebunch)[1], Head(ebunch)[2], utype, vtype, key, NoPtr, [weight |-> Head(ebunch)[3]]), g, Tail(ebunch), utype, vtype, key)

\* ------------------------------------------------------------ iteration
\* edges_iter(keys=True): by source node, target node, then key (KeyOrder).
NumKeys == Len(KeyOrder)
TripleSeq == [i \in 1..(MaxNode * MaxNode * NumKeys) |-> <<((i - 1) \div (MaxNode * NumKeys)) + 1, (((i - 1) \div NumKeys) % MaxNode) + 1, KeyOrder[((i - 1) % NumKeys) + 1]>>]
edges_iter(w, g) == SelectSeq(TripleSeq, LAMBDA e : e \in Edges(w, g))
\* subgraph2[t].items(): the successors of t, one entry per neighbour
Successors(w, g, t) == SelectSeq([i \in 1..MaxNode |-> i], LAMBDA t2 : Adjacent(w, g, t, t2))

\* ------------------------------------------------------------ derived graphs
\* A derived graph is built in the local "T" and returned into "R".
RECURSIVE add_subgraph_nodes(_, _, _, _)
add_subgraph_nodes(w, g, graph, ns) ==
  IF ns = << >> \/ w.raised THEN w
  ELSE LET n == Head(ns)
       IN  add_subgraph_nodes(add_node(w, g, n, NodeType(w, graph, n), None, w.G[graph].node[n]), g, graph, Tail(ns))

RECURSIVE add_subgraph_edges(_, _, _, _)
add_subgraph_edges(w, g, graph, es) ==
  IF es = << >> \/ w.raised THEN w
  ELSE LET e == Head(es)
           u == e[1]
           v == e[2]
           w1 == IF ~IsDict(w.G[graph].adj[e]) THEN w
                 ELSE add_edge(w, g, v, u, NodeType(w, graph, v), NodeType(w, graph, u), e[3], [g |-> graph, e |-> e], NoAttr)
       IN  add_subgraph_edges(w1, g, graph, Tail(es))

add_subgraph(w, g, graph) ==
  add_subgraph_edges(add_subgraph_nodes(w, g, graph, nodes_iter(w, graph)), g, graph, edges_iter(w, graph))

RECURSIVE subgraph_loop(_, _, _, _, _, _)
subgraph_loop(w, g, es, utype, vtype, key) ==
  IF es = << >> \/ w.raised THEN w
  ELSE LET e == Head(es)
           w1 == IF NodeType(w, g, e[1]) = utype /\ NodeType(w, g, e[2]) = vtype /\ (key = None \/ e[3] = key)
                 THEN add_edge(w, "T", e[1], e[2], utype, vtype, key, [g |-> g, e |-> e], NoAttr)
                 ELSE w
       IN  subgraph_loop(w1, g, Tail(es), utype, vtype, key)

subgraph(w, g, utype, vtype, key) ==
  subgraph_loop(w, g, edges_iter(w, g), utype, IF vtype = None THEN utype ELSE vtype, key)

RECURSIVE reverse_nodes(_, _, _)
reverse_nodes(w, g, ns) ==
  IF ns = << >> \/ w.raised THEN w
  ELSE LET n == Head(ns)
       IN  reverse_nodes(add_node(w, "T", n, NodeType(w, g, n), None, w.G[g].node[n]), g, Tail(ns))

RECURSIVE reverse_edges(_, _, _)
reverse_edges(w, g, es) ==
  IF es = << >> \/ w.raised THEN w
  ELSE LET e == Head(es)
           u == e[1]
           v == e[2]
       IN  reverse_edges(add_edge(w, "T", v, u, NodeType(w, g, v), NodeType(w, g, u), e[3], [g |-> g, e |-> e], NoAttr), g, Tail(es))

reverse(w, g) == reverse_edges(reverse_nodes(w, g, nodes_iter(w, g)), g, edges_iter(w, g))

\* mutant: the inferred edge is emitted towards f
RECURSIVE infer_inner_rev(_, _, _, _, _, _)
infer_inner_rev(w, subgraph1, subgraph2, f, t2s, key) ==
  IF t2s = << >> \/ w.raised THEN w
  ELSE LET t2 == Head(t2s)
           w1 == add_node(w, "T", f, NodeType(w, subgraph1, f), None, w.G[subgraph1].node[f])
           w2 == add_node(w1, "T", t2, NodeType(w1, subgraph2, t2), None, w1.G[subgraph2].node[t2])
           w3 == add_edge(w2, "T", t2, f, NodeType(w2, subgraph2, t2), NodeType(w2, subgraph1, f), key, NoPtr, NoAttr)
       IN  infer_inner_rev(w3, subgraph1, subgraph2, f, Tail(t2s), key)

RECURSIVE infer_inner(_, _, _, _, _, _)
infer_inner(w, subgraph1, subgraph2, f, t2s, key) ==
  IF t2s = << >> \/ w.raised THEN w
  ELSE LET t2 == Head(t2s)
           w1 == add_node(w, "T", f, NodeType(w, subgraph1, f), None, w.G[subgraph1].node[f])
           w2 == add_node(w1, "T", t2, NodeType(w1, subgraph2, t2), None, w1.G[subgraph2].node[t2])
           w3 == add_edge(w2, "T", f, t2, NodeType(w2, subgraph1, f), NodeType(w2, subgraph2, t2), key, NoPtr, NoAttr)
       IN  infer_inner(w3, subgraph1, subgraph2, f, Tail(t2s), key)

RECURSIVE infer_loop(_, _, _, _, _)
infer_loop(w, subgraph1, subgraph2, es, key) ==
  IF es = << >> \/ w.raised THEN w
  ELSE LET f == Head(es)[1]
           t == Head(es)[2]
           w1 == IF ~HasNode(w, subgraph2, t) THEN w
                 ELSE infer_inner(w, subgraph1, subgraph2, f, Successors(w, subgraph2, t), key)
       IN  infer_loop(w1, subgraph1, subgraph2, Tail(es), key)

infer(w, subgraph1, subgraph2, key) == infer_loop(w, subgraph1, subgraph2, edges_iter(w, subgraph1), key)

\* return of a derived graph: "R" takes the graph built in "T" unless the call raised
Return(w) ==
  GC(IF w.raised THEN [w EXCEPT !.G["T"] = EmptyGraph]
     ELSE [w EXCEPT !.G["R"] = w.G["T"], !.G["T"] = EmptyGraph])

\* ------------------------------------------------------------ the state machine
\* call: the last operation and its arguments; last, incs, registered: histories.
Pairs == Nodes \X Nodes
NoCall == [op |-> "-", g |-> "-", g2 |-> "-", u |-> 0, v |-> 0, ut |-> None, vt |-> None, key |-> None, raised |-> FALSE]
Call(op, g, u, v, ut, vt, key) == [op |-> op, g |-> g, g2 |-> "-", u |-> u, v |-> v, ut |-> ut, vt |-> vt, key |-> key, raised |-> FALSE]
NoRun == [key |-> "-", n |-> 0]
Spoiled == [key |-> "x", n |-> 0]

EmptyWorld == [G |-> [g \in GraphNames |-> EmptyGraph], heap |-> [r \in Refs |-> Free], raised |-> FALSE]

\* the state after construction of the graphs in w0, with b calls to go
InitWith(w0, b) ==
  /\ G = w0.G
  /\ heap = w0.heap
  /\ call = NoCall
  /\ last = [e \in Nodes \X Nodes \X Kinds |-> "none"]
  /\ incs = [p \in Pairs |-> NoRun]
  /\ registered = {}
  /\ budget = b

Init == InitWith(EmptyWorld, MaxOps)

InBounds(w) ==
  \A g \in GraphNames : \A e \in Edges(w, g) :
     /\ e[3] # Overflow
     /\ ~IsDict(w.G[g].adj[e]) => w.G[g].adj[e].int <= MaxWeight

Do(w, c) ==
  /\ budget > 0
  /\ LET done == GC(w)
     IN  /\ InBounds(done)
         /\ G' = done.G
         /\ heap' = done.heap
         /\ call' = [c EXCEPT !.raised = done.raised]
  /\ budget' = budget - 1

AddNode(g, n, type, nodeset_id) ==
  /\ Do(add_node(World, g, n, type, nodeset_id, NoRef), Call("AddNode", g, n, 0, type, None, None))
  /\ registered' = registered \cup {type}
  /\ UNCHANGED <<last, incs>>

AddNodesFrom(g, nodes, type) ==
  /\ Do(add_nodes_from(World, g, nodes, type), Call("AddNodesFrom", g, 0, 0, type, None, None))
  /\ registered' = registered \cup {type}
  /\ UNCHANGED <<last, incs>>

NodeSet(g, type) ==
  /\ Do(nodeset(World, g, type), Call("NodeSet", g, 0, 0, type, None, None))
  /\ UNCHANGED <<last, incs, registered>>

AddEdge(g, u, v, utype, vtype, key) ==
  /\ Do(add_edge(World, g, u, v, utype, vtype, key, NoPtr, NoAttr), Call("AddEdge", g, u, v, utype, vtype, key))
  /\ last' = IF g = "A" /\ key \in Kinds THEN [last EXCEPT ![<<u, v, key>>] = "add"] ELSE last
  /\ incs' = IF g # "A" THEN incs
             ELSE IF KeysOf(World, g, u, v) = {} /\ key # None THEN [incs EXCEPT ![<<u, v>>] = [key |-> key, n |-> 0]]
             ELSE [incs EXCEPT ![<<u, v>>] = Spoiled]
  /\ registered' = registered \cup {utype, vtype}

RemoveEdge(g, u, v, key) ==
  /\ Do(remove_edge(World, g, u, v, key), Call("RemoveEdge", g, u, v, None, None, key))
  /\ last' = IF g = "A" /\ key \in Kinds THEN [last EXCEPT ![<<u, v, key>>] = "remove"] ELSE last
  /\ incs' = IF g = "A" THEN [incs EXCEPT ![<<u, v>>] = Spoiled] ELSE incs
  /\ UNCHANGED registered

\* frenemy.flip_edge on the module's graph mm ("A")
flip_edge(w, u, v) ==
  IF has_edge(w, "A", u, v, "friend")
  THEN add_edge(remove_edge(w, "A", u, v, "friend"), "A", u, v, "person", "person", "enemy", NoPtr, [weight |-> 1])
  ELSE w

FlipEdge(u, v) ==
  /\ Do(flip_edge(World, u, v), Call("FlipEdge", "A", u, v, "person", "person", None))
  /\ last' = IF has_edge(World, "A", u, v, "friend")
             THEN [last EXCEPT ![<<u, v, "friend">>] = "remove", ![<<u, v, "enemy">>] = "add"]
             ELSE last
  /\ incs' = [incs EXCEPT ![<<u, v>>] = Spoiled]
  /\ registered' = registered \cup {"person"}

AddOrIncEdge(g, u, v, utype, vtype, key) ==
  /\ Do(add_or_inc_edge(World, g, u, v, utype, vtype, key), Call("AddOrIncEdge", g, u, v, utype, vtype, key))
  /\ incs' = IF g # "A" THEN incs
             ELSE IF KeysOf(World, g, u, v) = {} /\ key # None THEN [incs EXCEPT ![<<u, v>>] = [key |-> key, n |-> 1]]
             ELSE IF incs[<<u, v>>].key = key /\ key # None THEN [incs EXCEPT ![<<u, v>>].n = @ + 1]
             ELSE [incs EXCEPT ![<<u, v>>] = Spoiled]
  /\ registered' = registered \cup {utype, vtype}
  /\ UNCHANGED last

AddEdgesFrom(g, ebunch, utype, vtype, key) ==
  /\ Do(add_edges_from(World, g, ebunch, utype, vtype, key), Call("AddEdgesFrom", g, 0, 0, utype, vtype, key))
  /\ registered' = registered \cup {utype, vtype}
  /\ UNCHANGED <<last, incs>>

AddWeightedEdgesFrom(g, ebunch, utype, vtype, key) ==
  /\ Do(add_weighted_edges_from(World, g, ebunch, utype, vtype, key), Call("AddWeightedEdgesFrom", g, 0, 0, utype, vtype, key))
  /\ registered' = registered \cup {utype, vtype}
  /\ UNCHANGED <<last, incs>>

Subgraph(g, utype, vtype, key) ==
  /\ Do(Return(subgraph(World, g, utype, vtype, key)), Call("Subgraph", g, 0, 0, utype, vtype, key))
  /\ UNCHANGED <<last, incs, registered>>

Reverse(g) ==
  /\ Do(Return(reverse(World, g)), Call("Reverse", g, 0, 0, None, None, None))
  /\ UNCHANGED <<last, incs, registered>>

Infer(a, b, key) ==
  /\ Do(Return(infer(World, a, b, key)), [Call("Infer", a, 0, 0, None, None, key) EXCEPT !.g2 = b])
  /\ UNCHANGED <<last, incs, registered>>

Merge(g, graph) ==
  /\ Do(add_subgraph(World, g, graph), [Call("Merge", g, 0, 0, None, None, None) EXCEPT !.g2 = graph])
  /\ UNCHANGED <<last, incs, registered>>

\* frenemy.friend_of_a_friend: mm.add_subgraph(mm.infer(mm, mm, key="friend"))
friend_of_a_friend(w) ==
  LET w1 == add_subgraph(infer(w, "A", "A", "friend"), "A", "T")
  IN  [w1 EXCEPT !.G["T"] = EmptyGraph]

FriendOfAFriend ==
  /\ Do(friend_of_a_friend(World), Call("FriendOfAFriend", "A", 0, 0, None, None, "friend"))
  /\ UNCHANGED <<last, incs, registered>>

\* ------------------------------------------------------------ specifications
\* AddEdge / RemoveEdge / flip_edge on the driver's graph
NextEdges ==
  \/ \E p \in Pairs, k \in Kinds \cup {None} : AddEdge("A", p[1], p[2], "person", "person", k)
  \/ \E p \in Pairs, k \in Kinds : RemoveEdge("A", p[1], p[2], k)
  \/ \E p \in Pairs : FlipEdge(p[1], p[2])

SpecEdges == Init /\ [][NextEdges]_vars

Spec == SpecEdges

\* add_or_inc_edge after add_edge
NextInc ==
  \/ \E p \in Pairs, k \in Kinds : AddEdge("A", p[1], p[2], "person", "person", k)
  \/ \E p \in Pairs, k \in Kinds : AddOrIncEdge("A", p[1], p[2], "person", "person", k)

SpecInc == InitWith(EmptyWorld, MaxOps + 1) /\ [][NextInc]_vars

\* infer on two relations: "A" and "B" are built by add_edges_from from edge lists
\* of at most MaxEdges edges together, one-mode (person) or two-mode (person, place)
RECURSIVE SubsetsUpTo(_, _)
SubsetsUpTo(S, k) == IF k = 0 THEN {{}} ELSE LET prev == SubsetsUpTo(S, k - 1) IN prev \cup {T \cup {x} : T \in prev, x \in S}
PairSeq == [i \in 1..(MaxNode * MaxNode) |-> <<((i - 1) \div MaxNode) + 1, ((i - 1) % MaxNode) + 1>>]
Bunch(S, g) == SelectSeq(PairSeq, LAMBDA p : <<g, p>> \in S)
Built(S, two) ==
  LET wA == add_edges_from(EmptyWorld, "A", Bunch(S, "A"), "person", IF two THEN "place" ELSE "person", "friend")
  IN  add_edges_from(wA, "B", Bunch(S, "B"), IF two THEN "place" ELSE "person", "person", "enemy")

InitInfer == \E S \in SubsetsUpTo({"A", "B"} \X Pairs, MaxEdges), two \in BOOLEAN : InitWith(Built(S, two), 1)

NextInfer ==
  \/ \E k \in Kinds : Infer("A", "B", k)
  \/ \E k \in Kinds : Infer("A", "A", k)

SpecInfer == InitInfer /\ [][NextInfer]_vars

\* the type index: add_node, add_nodes_from, add_edge, nodeset
NextNodes ==
  \/ \E n \in Nodes, t \in Types : AddNode("A", n, t, None)
  \/ \E ns \in {<<1>>, <<1, 2>>}, t \in Types : AddNodesFrom("A", ns, t)
  \/ \E p \in Pairs, ut \in Types, vt \in Types : AddEdge("A", p[1], p[2], ut, vt, "friend")
  \/ \E t \in Types : NodeSet("A", t)

SpecNodes == InitWith(EmptyWorld, MaxOps + 1) /\ [][NextNodes]_vars

\* the edge-adding calls
NextBulk ==
  \/ \E p \in Pairs, k \in Kinds \cup {None} : AddEdge("A", p[1], p[2], "person", "person", k)
  \/ \E p \in Pairs, k \in Kinds \cup {None} : AddEdgesFrom("A", <<p, p>>, "person", "person", k)
  \/ \E p \in Pairs, k \in Kinds \cup {None} : AddWeightedEdgesFrom("A", <<<<p[1], p[2], 1>>, <<p[1], p[2], 2>>>>, "person", "person", k)
  \/ \E p \in Pairs, k \in Kinds \cup {None} : AddOrIncEdge("A", p[1], p[2], "person", "person", k)

SpecBulk == Init /\ [][NextBulk]_vars

\* add_subgraph: a second graph "B", or the inferred friends of friends, merged into "A"
NextMerge ==
  \/ \E g \in {"A", "B"}, p \in Pairs : AddEdge(g, p[1], p[2], "person", "person", "friend")
  \/ Merge("A", "B")
  \/ FriendOfAFriend

SpecMerge == InitWith(EmptyWorld, MaxOps + 1) /\ [][NextMerge]_vars

\* subgraph, reverse, infer and add_subgraph of a graph built by the adding calls,
\* and a later add_node on the result
NextDerive ==
  \/ \E n \in Nodes, t \in Types, i \in NodesetIds : AddNode("A", n, t, i)
  \/ \E p \in Pairs, ts \in {<<"person", "person">>, <<"person", "place">>}, k \in Kinds : AddEdge("A", p[1], p[2], ts[1], ts[2], k)
  \/ \E p \in Pairs : AddOrIncEdge("A", p[1], p[2], "person", "person", "friend")
  \/ \E ut \in Types, vt \in Types \cup {None}, k \in {"friend", None} : Subgraph("A", ut, vt, k)
  \/ Reverse("A")
  \/ Reverse("R")
  \/ Infer("A", "A", "friend")
  \/ Merge("B", "A")
  \/ \E n \in Nodes, t \in Types : AddNode("R", n, t, None)

SpecDerive == InitWith(EmptyWorld, MaxOps + 1) /\ [][NextDerive]_vars

Relation(g) == {<<e[1], e[2]>> : e \in Edges(World, g)}
Intermediates(a, b, f, t2) == {t \in Nodes : Adjacent(World, a, f, t) /\ Adjacent(World, b, t, t2)}
Composition(a, b) == {p \in Pairs : Intermediates(a, b, p[1], p[2]) # {}}
\* what a graph holds: each node's attributes, the edges with theirs, the type index
View(g) == [node |-> [n \in Nodes |-> IF HasNode(World, g, n) THEN NodeData(World, g, n) ELSE Free], adj |-> G[g].adj, nodesets |-> G[g].nodesets]

\* C2: k consecutive add_or_inc_edge(u, v, kind) calls, started on a pair without
\* an edge or on a lone (u, v, kind) edge without weight, never raise and leave
\* exactly one edge u -> v, of that kind, whose weight is k.
C2_IncrementCountsCalls ==
  \A p \in Pairs :
     (incs[p].key \in Kinds /\ incs[p].n >= 1) =>
        /\ ~call.raised
        /\ KeysOf(World, "A", p[1], p[2]) = {incs[p].key}
        /\ IsDict(G["A"].adj[<<p[1], p[2], incs[p].key>>])
        /\ "weight" \in DOMAIN G["A"].adj[<<p[1], p[2], incs[p].key>>]
        /\ G["A"].adj[<<p[1], p[2], incs[p].key>>].weight = incs[p].n

\* C3: infer(A, B, kind) returns, without raising, exactly the edges (f, t2, kind)
\* with an edge f -> t in A and an edge t -> t2 in B for some t, one edge per
\* (f, t2); no edges when A or B has none; the single edge (1, 3, kind) for
\* A = B = the chain 1 -> 2 -> 3.
C3_InferIsComposition ==
  call.op = "Infer" =>
     /\ ~call.raised
     /\ Edges(World, "R") = {<<p[1], p[2], call.key>> : p \in Composition(call.g, call.g2)}
     /\ (Relation(call.g) = {} \/ Relation(call.g2) = {}) => Edges(World, "R") = {}
     /\ (call.g2 = "A" /\ Relation("A") = {<<1, 2>>, <<2, 3>>}) => Edges(World, "R") = {<<1, 3, call.key>>}

C3_Witness ==
  /\ call.op = "Infer"
  /\ \E p \in Pairs : Cardinality(Intermediates(call.g, call.g2, p[1], p[2])) >= 2 /\ <<p[1], p[2], call.key>> \in Edges(World, "R")

\* C4: subgraph(ut, vt, kind) holds the edge (f, t, k) exactly when the graph holds
\* (f, t, k) with type(f) = ut, type(t) = vt and kind absent or k = kind: without
\* a kind filter every edge keeps its own kind.
C4_SubgraphKeepsKinds ==
  (call.op = "Subgraph" /\ call.g = "A") =>
     /\ ~call.raised
     /\ Edges(World, "R") = {e \in Edges(World, "A") :
                               /\ NodeType(World, "A", e[1]) = call.ut
                               /\ NodeType(World, "A", e[2]) = (IF call.vt = None THEN call.ut ELSE call.vt)
                               /\ (call.key = None \/ e[3] = call.key)}

\* C5: the type index agrees with the node store: n is in nodeset(t) exactly when
\* the type stored on node n is t.
C5_TypeIndexAgrees ==
  \A n \in Nodes, t \in Types \cup {None} :
     n \in nodeset_result(World, "A", t) <=> (HasNode(World, "A", n) /\ NodeType(World, "A", n) = t)

\* C6: add_edge with a (source, target, kind) triple that is already present, the
\* absent kind included, leaves the number of edges unchanged.
TriplePresent(u, v, key) == IF key = None THEN KeysOf(World, "A", u, v) \cap AutoKeys # {} ELSE <<u, v, key>> \in Edges(World, "A")
C6_ReAddKeepsEdgeCount ==
  [][(call'.op = "AddEdge" /\ TriplePresent(call'.u, call'.v, call'.key)) =>
        Cardinality(DOMAIN G'["A"].adj) = Cardinality(DOMAIN G["A"].adj)]_vars

\* C7: a merge keeps directions: the callee then holds every edge (u, v, kind) of
\* the other graph as u -> v, keeps its own edges and gives each merged node the
\* type it has in the other graph; merging the inferred friends of friends adds
\* (f, t2, "friend") for every f -> t -> t2.
C7_MergeKeepsDirection ==
  [][/\ call'.op = "Merge" =>
          /\ \A e \in Edges(World, call'.g2) \cup Edges(World, call'.g) : e \in DOMAIN G'[call'.g].adj
          /\ \A n \in Nodes : HasNode(World, call'.g2, n) => heap'[G'[call'.g].node[n]].type = NodeType(World, call'.g2, n)
     /\ call'.op = "FriendOfAFriend" =>
          \A p \in Composition("A", "A") : <<p[1], p[2], "friend">> \in DOMAIN G'["A"].adj]_vars

\* C8: reverse(G) holds (v, u, kind) exactly when G holds (u, v, kind), with G's
\* nodes and node types, and reversing the result gives back G's edges.
C8_ReverseSwapsEveryEdge ==
  (call.op = "Reverse" /\ call.g = "A") =>
     /\ ~call.raised
     /\ Edges(World, "R") = {<<e[2], e[1], e[3]>> : e \in Edges(World, "A")}
     /\ \A n \in Nodes : HasNode(World, "R", n) <=> HasNode(World, "A", n)
     /\ \A n \in Nodes : HasNode(World, "A", n) => NodeType(World, "R", n) = NodeType(World, "A", n)
     /\ ~reverse(World, "R").raised
     /\ Edges(Return(reverse(World, "R")), "R") = Edges(World, "A")

\* C9: subgraph, infer, reverse and merge leave their source graph as it was, and
\* a later change of a node in the result does not show in the source.
C9_DerivedGraphsIndependent ==
  [][/\ (call'.op \in {"Subgraph", "Reverse", "Infer"} /\ call'.g = "A") => View("A")' = View("A")
     /\ \A s \in GraphNames : (call'.op = "Merge" /\ call'.g2 = s) => View(s)' = View(s)
     /\ (call'.op = "AddNode" /\ call'.g = "R") => View("A")' = View("A")]_vars

\* C10: nodeset(t) does not raise and leaves the graph as it was: node_types()
\* holds only type labels registered by an add_node, add_nodes_from or add_edge.
C10_NodeTypesOnlyRegistered ==
  /\ call.op = "NodeSet" => ~call.raised
  /\ node_types(World, "A") \subseteq registered

====
